---- MODULE Spec2Model ----
(***************************************************************************)
(* The adaptive polling / staleness engine of path-app.                    *)
(*                                                                         *)
(* Two contexts: the FetchThread (src/path_app/app.py:88-140) and the Qt   *)
(* main thread running MainWindow's slots (app.py:692-718, 753-798).       *)
(* Signals emitted by the thread reach the window through Qt's queued      *)
(* connection, modelled by the sequence `queue`.                           *)
(*                                                                         *)
(* Units.  Wall time is counted in whole seconds.  A delay is kept in       *)
(* hundredths of a second, so that base * (1 + u) with u a whole           *)
(* percentage is exact; Python's float rounding is not modelled.           *)
(* datetime.now() - last_successful_fetch is kept as the relative timer    *)
(* fetch_age, and Event.wait(delay) as the countdown sleep_left.           *)
(*                                                                         *)
(* Time advances by discrete events (action Tick): from one instant at     *)
(* which something can happen to the next one.  What the program decides   *)
(* (the length of a sleep, the two seconds of closeEvent's wait, the age   *)
(* at which the status turns stale) is exact; what the environment decides *)
(* (how long a request takes, when the user closes the window) is drawn    *)
(* from small sets: FetchSeconds, and the instants just named.             *)
(***************************************************************************)
EXTENDS Integers, Sequences, FiniteSets, TLC

VARIABLES
    config,               \* AppConfig handed to FetchThread and MainWindow
    \* ---- FetchThread
    pc,                   \* position in FetchThread.run
    stop_event,           \* self._stop_event
    backoff_seconds,      \* self._backoff_seconds
    delay,                \* local `delay` of run(), in hundredths of a second
    sleep_left,           \* whole seconds left of _stop_event.wait(delay)
    fetch_left,           \* whole seconds until the in-flight session.get returns or raises
    session_closes,       \* number of calls of self.session.close()
    response,             \* the HTTP response of the fetch under study; None when
                          \* the responses are not recorded
    \* ---- signals in flight (queued connection)
    queue,
    \* ---- MainWindow
    latest_data,
    last_fetch_ok,
    fetch_age,            \* now - last_successful_fetch; NoAge before the first
    last_signature,
    unchanged_polls,
    consecutive_failures,
    status,               \* what update_status_pill last showed
    clock_due,            \* clock_timer has timed out, update_clock is pending
    main_pc,              \* "idle", "close_wait", "closed", "exited"
    close_wait_left,      \* whole seconds left of fetch_thread.wait(2000)
    \* ---- history (read by the properties, never by the program)
    fail_run,             \* fetches failed in a row, most recent
    ever_ok,              \* some fetch has succeeded since the thread started
    fetches_after_stop,   \* fetches begun after stop() was called
    events_after_stop,    \* signals emitted after stop() was called
    fresh_run             \* k: the window has handled exactly k data signals,
                          \*    all with the same non-empty messages; -1 otherwise

vars == <<config, pc, stop_event, backoff_seconds, delay, sleep_left,
          fetch_left, session_closes, response, queue, latest_data, last_fetch_ok,
          fetch_age, last_signature, unchanged_polls, consecutive_failures,
          status, clock_due, main_pc, close_wait_left, fail_run, ever_ok,
          fetches_after_stop, events_after_stop, fresh_run>>

pollerVars == <<pc, stop_event, backoff_seconds, delay, sleep_left,
                fetch_left, session_closes>>
windowVars == <<latest_data, last_fetch_ok, fetch_age, last_signature,
                unchanged_polls, consecutive_failures, status>>

\* Optional[T]: None is the empty set, a value x is {x}
None == {}
Some(x) == {x}
Get(o) == CHOOSE x \in o : TRUE
\* last_successful_fetch is None: there is no age
NoAge == -1

Max(a, b) == IF a >= b THEN a ELSE b
Min(a, b) == IF a <= b THEN a ELSE b

(***************************************************************************)
(* Program constants                                                       *)
(***************************************************************************)
MinDelay == 5
MinBackoff == 5
MaxBackoff == 60
InitialBackoff == 5
FetchTimeout == 5
CloseWaitSeconds == 2

(***************************************************************************)
(* Bounds of the model                                                     *)
(***************************************************************************)
MaxQueue == 2
MaxFailRun == 6
MaxUnchanged == 3
MaxMessages == 2

(***************************************************************************)
(* Configurations.  jitter_pct is jitter_ratio in percent.                 *)
(***************************************************************************)
DEFAULT_CONFIG ==
    [ station                      |-> "HOB",
      poll_baseline_seconds        |-> 30,
      poll_aggressive_seconds      |-> 15,
      poll_relaxed_seconds         |-> 90,
      poll_background_seconds      |-> 300,
      aggressive_threshold_seconds |-> 300,
      relaxed_threshold_seconds    |-> 900,
      jitter_pct                   |-> 10,
      ttl_seconds                  |-> 45,
      ttl_aggressive_seconds       |-> 20,
      stale_no_change_polls        |-> 3,
      stale_failure_polls          |-> 3 ]

\* The same engine with short intervals, and a jitter wide enough for
\* base * jitter to fall below the floor of 5 seconds
COMPACT_CONFIG ==
    [DEFAULT_CONFIG EXCEPT !.poll_baseline_seconds = 8,
                           !.poll_aggressive_seconds = 6,
                           !.poll_relaxed_seconds = 10,
                           !.poll_background_seconds = 12,
                           !.jitter_pct = 50,
                           !.ttl_seconds = 10,
                           !.ttl_aggressive_seconds = 7]

\* poll_baseline_seconds below the backoff floor of 5
LOW_BASELINE_CONFIG ==
    [COMPACT_CONFIG EXCEPT !.poll_baseline_seconds = 3,
                           !.jitter_pct = 0]

\* poll_baseline_seconds above the backoff cap of 60, and the two thresholds
\* crossed (aggressive above relaxed), so that a soonest arrival can pass both
\* tests of _next_delay
HIGH_BASELINE_CONFIG ==
    [COMPACT_CONFIG EXCEPT !.poll_baseline_seconds = 61,
                           !.aggressive_threshold_seconds = 900,
                           !.relaxed_threshold_seconds = 100,
                           !.jitter_pct = 0,
                           !.stale_no_change_polls = 2,
                           !.stale_failure_polls = 2]

\* the configurations the running system is checked with
Configs == {COMPACT_CONFIG, LOW_BASELINE_CONFIG, HIGH_BASELINE_CONFIG}

\* the configurations update_status_pill is evaluated with
EvalConfigs == Configs \cup {DEFAULT_CONFIG}

(***************************************************************************)
(* Text.  A Python str is a sequence of one-character strings, so that     *)
(* strip, split, upper and int are computed and not assumed.               *)
(***************************************************************************)
Whitespace == {" "}
Digits == {"0", "1", "2", "3", "4", "5", "6", "7", "8", "9"}

RECURSIVE LStrip(_)
LStrip(s) ==
    IF s # << >> /\ Head(s) \in Whitespace THEN LStrip(Tail(s)) ELSE s

RECURSIVE RStrip(_)
RStrip(s) ==
    IF s # << >> /\ s[Len(s)] \in Whitespace
    THEN RStrip(SubSeq(s, 1, Len(s) - 1)) ELSE s

\* str.strip()
Strip(s) == RStrip(LStrip(s))

DigitValue(c) ==
    CASE c = "0" -> 0 [] c = "1" -> 1 [] c = "2" -> 2 [] c = "3" -> 3
      [] c = "4" -> 4 [] c = "5" -> 5 [] c = "6" -> 6 [] c = "7" -> 7
      [] c = "8" -> 8 [] c = "9" -> 9

RECURSIVE DecimalValue(_)
DecimalValue(ds) ==
    IF ds = << >> THEN 0
    ELSE DecimalValue(SubSeq(ds, 1, Len(ds) - 1)) * 10 + DigitValue(ds[Len(ds)])

\* JSON scalars as json.loads returns them: str, int, None
JStr(cs) == [ type |-> "string", chars |-> cs, num |-> 0 ]
JNum(n)  == [ type |-> "number", chars |-> << >>, num |-> n ]
JNull    == [ type |-> "null", chars |-> << >>, num |-> 0 ]

\* int(v); None when it raises TypeError (None) or ValueError (a str that is
\* not an optional sign and decimal digits, surrounded by whitespace)
PyInt(v) ==
    IF v.type = "number" THEN Some(v.num)
    ELSE IF v.type = "null" THEN None
    ELSE LET s == Strip(v.chars)
             signed == s # << >> /\ Head(s) \in {"+", "-"}
             ds == IF signed THEN Tail(s) ELSE s
         IN IF ds = << >> \/ \E i \in 1..Len(ds) : ds[i] \notin Digits
            THEN None
            ELSE Some(IF signed /\ Head(s) = "-"
                      THEN 0 - DecimalValue(ds) ELSE DecimalValue(ds))

(***************************************************************************)
(* path_data.parse_last_updated.  The text of a timestamp is kept by what  *)
(* datetime.fromisoformat reads from it: the wall time (minutes) and the   *)
(* UTC offset (minutes) when the text has one; a text it rejects; the      *)
(* empty text.  A datetime is a wall time with its offset, and datetimes   *)
(* compare by the instant they denote.                                     *)
(***************************************************************************)
IsoText(wall, offset) == [ kind |-> "iso", wall |-> wall, offset |-> offset ]
OtherText == [ kind |-> "other", wall |-> 0, offset |-> None ]
EmptyText == [ kind |-> "empty", wall |-> 0, offset |-> None ]

DateTime(wall, utcoffset) == [ wall |-> wall, utcoffset |-> utcoffset ]
Instant(dt) == dt.wall - dt.utcoffset

\* timezone.utc
UtcOffset == 0

\* a variant of ParseLastUpdated: a naive timestamp is read as US Eastern time
ParseLastUpdated_NaiveIsLocal(value) ==
    IF value = None \/ Get(value).kind # "iso" THEN None
    ELSE Some(DateTime(Get(value).wall,
                       IF Get(value).offset = None THEN 0 - 300
                       ELSE Get(Get(value).offset)))

ParseLastUpdated(value) ==
    IF value = None \/ Get(value).kind = "empty" THEN None
    ELSE IF Get(value).kind # "iso" THEN None
    ELSE Some(DateTime(Get(value).wall,
                       IF Get(value).offset = None THEN UtcOffset
                       ELSE Get(Get(value).offset)))

(***************************************************************************)
(* path_data._normalize_color, parse_line_colors                           *)
(***************************************************************************)
Gray == << "#", "9", "9", "9", "9", "9", "9" >>

UpperChar(c) ==
    CASE c = "a" -> "A" [] c = "b" -> "B" [] c = "c" -> "C"
      [] c = "d" -> "D" [] c = "e" -> "E" [] c = "f" -> "F"
      [] OTHER -> c

Upper(s) == [ i \in 1..Len(s) |-> UpperChar(s[i]) ]

RECURSIVE LStripHash(_)
LStripHash(s) ==
    IF s # << >> /\ Head(s) = "#" THEN LStripHash(Tail(s)) ELSE s

NormalizeColor(value) ==
    LET v == LStripHash(Strip(value)) IN
    IF Len(v) = 0 THEN Gray
    ELSE << "#" >> \o Upper(IF Len(v) = 3
                             THEN << v[1], v[1], v[2], v[2], v[3], v[3] >>
                             ELSE v)

RECURSIVE Split(_, _)
Split(s, sep) ==
    IF \A i \in 1..Len(s) : s[i] # sep THEN << s >>
    ELSE LET k == CHOOSE i \in 1..Len(s) :
                      s[i] = sep /\ \A j \in 1..(i - 1) : s[j] # sep
         IN << SubSeq(s, 1, k - 1) >> \o Split(SubSeq(s, k + 1, Len(s)), sep)

ParseLineColors(raw) ==
    IF raw = << >> THEN << Gray >>
    ELSE LET pieces == Split(raw, ",")
             parts == SelectSeq([ i \in 1..Len(pieces) |-> Strip(pieces[i]) ],
                                LAMBDA part : part # << >>)
         IN IF parts = << >> THEN << Gray >>
            ELSE LET normalized ==
                         [ i \in 1..Len(parts) |-> NormalizeColor(parts[i]) ]
                 IN SubSeq(normalized, 1, Min(2, Len(normalized)))

(***************************************************************************)
(* path_data.TrainMessage, StationData                                     *)
(***************************************************************************)
TrainMessage(label, target, seconds, arrival, colors, headsign, updated) ==
    [ label |-> label, target |-> target, seconds_to_arrival |-> seconds,
      arrival_message |-> arrival, line_colors |-> colors,
      headsign |-> headsign, last_updated |-> updated ]

StationData(msgs, updated) == [ messages |-> msgs, last_updated |-> updated ]

RECURSIVE MinSeconds(_)
MinSeconds(msgs) ==
    IF Len(msgs) = 1 THEN msgs[1].seconds_to_arrival
    ELSE Min(msgs[1].seconds_to_arrival, MinSeconds(Tail(msgs)))

(***************************************************************************)
(* The feed payload, as resp.json() returns it.  A key that is absent is   *)
(* None; a str field that is present is Some(its characters).              *)
(***************************************************************************)
Payload(results) == [ type |-> "object", results |-> results ]
NotAnObject == [ type |-> "array", results |-> None ]

ResultsList(items) == [ type |-> "array", items |-> items ]
ResultsNotAList == [ type |-> "string", items |-> << >> ]

StationEntry(code, destinations) ==
    [ type |-> "object", consideredStation |-> code,
      destinations |-> destinations ]
NullEntry ==
    [ type |-> "null", consideredStation |-> None, destinations |-> None ]

Destination(label, messages) == [ label |-> label, messages |-> messages ]

RawMessage(target, seconds, arrival, color, headsign, updated) ==
    [ target |-> target, secondsToArrival |-> seconds,
      arrivalTimeMessage |-> arrival, lineColor |-> color,
      headSign |-> headsign, lastUpdated |-> updated ]

\* what a call gives: the value it returns or the exception it raises
Returned(v) == [ raised |-> None, value |-> Some(v) ]
Raised(e) == [ raised |-> Some(e), value |-> None ]

\* dict.get(key, default) of a str field, then str()
StrOf(field) == IF field = None THEN << >> ELSE Get(field)

(***************************************************************************)
(* path_data.parse_station_data                                            *)
(***************************************************************************)
\* lines 61-64: next() over the generator stops at the first matching entry;
\* entry.get on an entry that is no object raises AttributeError
RECURSIVE FirstMatch(_, _)
FirstMatch(results, station_code) ==
    IF results = << >> THEN Returned(None)
    ELSE IF Head(results).type # "object" THEN Raised("AttributeError")
    ELSE IF Head(results).consideredStation = Some(station_code)
         THEN Returned(Some(Head(results)))
    ELSE FirstMatch(Tail(results), station_code)

\* a variant of SecondsOf: one minute is taken off the feed's value
SecondsOf_MinusSixty(raw_msg) ==
    LET v == IF raw_msg.secondsToArrival = None
             THEN PyInt(JStr(<< "0" >>))
             ELSE PyInt(Get(raw_msg.secondsToArrival))
    IN IF v = None THEN None ELSE Some(Get(v) - 60)

\* lines 72-75: int(raw_msg.get("secondsToArrival", "0")); None when the
\* message is skipped
SecondsOf(raw_msg) ==
    IF raw_msg.secondsToArrival = None
    THEN PyInt(JStr(<< "0" >>))
    ELSE PyInt(Get(raw_msg.secondsToArrival))

\* lines 72-85: the TrainMessage of one raw message; None when it is skipped
ParseMessage(label, raw_msg) ==
    IF SecondsOf(raw_msg) = None THEN None
    ELSE Some(TrainMessage(
             label,
             Strip(StrOf(raw_msg.target)),
             Get(SecondsOf(raw_msg)),
             Strip(StrOf(raw_msg.arrivalTimeMessage)),
             ParseLineColors(StrOf(raw_msg.lineColor)),
             Strip(StrOf(raw_msg.headSign)),
             ParseLastUpdated(raw_msg.lastUpdated)))

\* lines 70-85: the messages one destination appends
DestinationMessages(destination) ==
    LET raw == IF destination.messages = None THEN << >>
               ELSE Get(destination.messages)
        parsed == [ i \in 1..Len(raw) |->
                      ParseMessage(StrOf(destination.label), raw[i]) ]
        kept == SelectSeq(parsed, LAMBDA m : m # None)
    IN [ i \in 1..Len(kept) |-> Get(kept[i]) ]

\* lines 68-85: all destinations, in the payload's order
RECURSIVE EntryMessages(_)
EntryMessages(destinations) ==
    IF destinations = << >> THEN << >>
    ELSE DestinationMessages(Head(destinations))
         \o EntryMessages(Tail(destinations))

RECURSIVE InsertBySeconds(_, _)
InsertBySeconds(m, sorted) ==
    IF sorted = << >> THEN << m >>
    ELSE IF m.seconds_to_arrival < Head(sorted).seconds_to_arrival
         THEN << m >> \o sorted
    ELSE << Head(sorted) >> \o InsertBySeconds(m, Tail(sorted))

\* a variant of SortBySeconds: the messages stay in the payload's order
SortBySeconds_PayloadOrder(msgs) == msgs

\* line 87: list.sort(key=seconds_to_arrival), a stable sort
RECURSIVE SortBySeconds(_)
SortBySeconds(msgs) ==
    IF msgs = << >> THEN << >>
    ELSE InsertBySeconds(msgs[Len(msgs)],
                         SortBySeconds(SubSeq(msgs, 1, Len(msgs) - 1)))

\* lines 88-90: max() of the timestamps that are present, default None; of
\* equal ones max() keeps the first
RECURSIVE MaxLastUpdated(_)
MaxLastUpdated(msgs) ==
    IF msgs = << >> THEN None
    ELSE LET before == MaxLastUpdated(SubSeq(msgs, 1, Len(msgs) - 1))
             last == msgs[Len(msgs)].last_updated
         IN IF last = None THEN before
            ELSE IF before = None THEN last
            ELSE IF Instant(Get(last)) > Instant(Get(before)) THEN last
            ELSE before

EmptyStationData == StationData(<< >>, None)

ParseStationData(payload, station_code) ==
    IF payload.type # "object" \/ payload.results = None
       \/ Get(payload.results).type # "array"
    THEN Returned(EmptyStationData)
    ELSE LET found == FirstMatch(Get(payload.results).items, station_code) IN
         IF found.raised # None THEN found
         ELSE IF Get(found.value) = None THEN Returned(EmptyStationData)
         ELSE LET entry == Get(Get(found.value))
                  messages == SortBySeconds(EntryMessages(
                                  IF entry.destinations = None THEN << >>
                                  ELSE Get(entry.destinations)))
              IN Returned(StationData(messages, MaxLastUpdated(messages)))

(***************************************************************************)
(* FetchThread._fetch_once                                                 *)
(***************************************************************************)
\* what session.get gives: an exception of requests (connection, timeout),
\* or a response with its status and its body, which is JSON text or not
TransportError ==
    [ kind |-> "exception", status |-> 0, json |-> FALSE,
      payload |-> NotAnObject ]
HttpResponse(status_code, is_json, body) ==
    [ kind |-> "response", status |-> status_code, json |-> is_json,
      payload |-> body ]

\* lines 122-125: get, raise_for_status, resp.json(), parse_station_data
FetchOnce(resp, station_code) ==
    IF resp.kind = "exception" THEN Raised("RequestException")
    ELSE IF 400 <= resp.status /\ resp.status < 600 THEN Raised("HTTPError")
    ELSE IF ~resp.json THEN Raised("JSONDecodeError")
    ELSE ParseStationData(resp.payload, station_code)

(***************************************************************************)
(* What the feed answers while the engine runs: four trains, and the       *)
(* snapshots parse_station_data makes of them.                             *)
(***************************************************************************)
ToNY == << "T", "o", "N", "Y" >>
Blue == << "4", "D", "9", "2", "F", "B" >>

RawWTC ==
    RawMessage(Some(<< "W", "T", "C" >>), Some(JStr(<< "1", "2", "0" >>)),
               Some(<< "2", " ", "m", "i", "n" >>), Some(Blue),
               Some(<< "W", "o", "r", "l", "d" >>),
               Some(IsoText(721, Some(0 - 300))))
Raw33S ==
    RawMessage(Some(<< "3", "3", "S" >>), Some(JStr(<< "3", "0", "0" >>)),
               Some(<< "5", " ", "m", "i", "n" >>), Some(Blue),
               Some(<< "3", "3", "r", "d" >>),
               Some(IsoText(720, Some(0 - 300))))
RawJSQ ==
    RawMessage(Some(<< "J", "S", "Q" >>), Some(JStr(<< "9", "0", "0" >>)),
               Some(<< "1", "5", " ", "m", "i", "n" >>), Some(Blue),
               Some(<< "J", "o", "u", "r", "n", "a", "l" >>),
               Some(IsoText(720, Some(0 - 300))))
RawNWK ==
    RawMessage(Some(<< "N", "W", "K" >>), Some(JStr(<< "9", "0", "1" >>)),
               Some(<< "1", "5", " ", "m", "i", "n" >>), Some(Blue),
               Some(<< "N", "e", "w", "a", "r", "k" >>),
               Some(IsoText(720, Some(0 - 300))))

\* the payload of station HOB with one destination and these raw messages
PayloadOf(raw_msgs) ==
    Payload(Some(ResultsList(
        << StationEntry(Some("HOB"),
                        Some(<< Destination(Some(ToNY), Some(raw_msgs)) >>)) >>)))

SpecPayloads ==
    { Payload(Some(ResultsList(<< >>))),
      PayloadOf(<< Raw33S, RawWTC >>),
      PayloadOf(<< Raw33S >>),
      PayloadOf(<< RawJSQ >>),
      PayloadOf(<< RawNWK >>) }

\* what session.get can give while the engine runs
FeedResponses ==
    { HttpResponse(200, TRUE, p) : p \in SpecPayloads }
    \cup { TransportError,
           HttpResponse(503, TRUE, Payload(None)),
           HttpResponse(200, FALSE, NotAnObject) }

\* what _fetch_once gives for them: every configuration has the station of
\* DEFAULT_CONFIG
FeedOutcomes == { FetchOnce(r, DEFAULT_CONFIG.station) : r \in FeedResponses }

\* What a successful _fetch_once can return
Snapshots == { Get(o.value) : o \in { x \in FeedOutcomes : x.raised = None } }

\* the four trains as parse_station_data returns them
MsgWTC ==
    TrainMessage(ToNY, << "W", "T", "C" >>, 120, << "2", " ", "m", "i", "n" >>,
                 << << "#" >> \o Blue >>, << "W", "o", "r", "l", "d" >>,
                 Some(DateTime(721, 0 - 300)))
Msg33S ==
    TrainMessage(ToNY, << "3", "3", "S" >>, 300, << "5", " ", "m", "i", "n" >>,
                 << << "#" >> \o Blue >>, << "3", "3", "r", "d" >>,
                 Some(DateTime(720, 0 - 300)))
MsgJSQ ==
    TrainMessage(ToNY, << "J", "S", "Q" >>, 900,
                 << "1", "5", " ", "m", "i", "n" >>,
                 << << "#" >> \o Blue >>,
                 << "J", "o", "u", "r", "n", "a", "l" >>,
                 Some(DateTime(720, 0 - 300)))
MsgNWK ==
    TrainMessage(ToNY, << "N", "W", "K" >>, 901,
                 << "1", "5", " ", "m", "i", "n" >>,
                 << << "#" >> \o Blue >>,
                 << "N", "e", "w", "a", "r", "k" >>,
                 Some(DateTime(720, 0 - 300)))

(***************************************************************************)
(* FetchThread._next_delay                                                 *)
(***************************************************************************)
\* the values random.uniform(-jitter_ratio, jitter_ratio) is sampled at, in
\* percent: both ends and the middle
JitterSamples(cfg) == {-cfg.jitter_pct, 0, cfg.jitter_pct}

\* a variant of NextDelayBase: the relaxed test comes before the aggressive one
NextDelayBase_RelaxedFirst(cfg, data) ==
    IF data.messages = << >> THEN cfg.poll_background_seconds
    ELSE LET soonest == MinSeconds(data.messages) IN
         IF soonest > cfg.relaxed_threshold_seconds
             THEN cfg.poll_relaxed_seconds
         ELSE IF soonest < cfg.aggressive_threshold_seconds
             THEN cfg.poll_aggressive_seconds
         ELSE cfg.poll_baseline_seconds

NextDelayBase(cfg, data) ==
    IF data.messages = << >> THEN cfg.poll_background_seconds
    ELSE LET soonest == MinSeconds(data.messages) IN
         IF soonest < cfg.aggressive_threshold_seconds
             THEN cfg.poll_aggressive_seconds
         ELSE IF soonest > cfg.relaxed_threshold_seconds
             THEN cfg.poll_relaxed_seconds
         ELSE cfg.poll_baseline_seconds

\* max(5, base * jitter), in hundredths of a second; u is the sampled jitter
NextDelay(cfg, data, u) ==
    Max(MinDelay * 100, NextDelayBase(cfg, data) * (100 + u))

\* how long a request can take: at once, as long as closeEvent waits, or up
\* to the timeout of session.get
FetchSeconds == {0, CloseWaitSeconds, FetchTimeout}

\* whole seconds after which Event.wait(d) has timed out
SleepSeconds(d) == (d + 99) \div 100

(***************************************************************************)
(* MainWindow._build_signature and update_status_pill                      *)
(***************************************************************************)
BuildSignature(data) ==
    IF data = None \/ Get(data).messages = << >> THEN << >>
    ELSE [ i \in 1..Len(Get(data).messages) |->
             LET m == Get(data).messages[i] IN
             << m.headsign, m.target, m.seconds_to_arrival,
                m.arrival_message, m.line_colors >> ]

HasMessages(data) == data # None /\ Get(data).messages # << >>

\* a variant of EffectiveTtl: the TTL is not widened
EffectiveTtl_NoWidening(cfg, data) ==
    IF HasMessages(data)
    THEN IF MinSeconds(Get(data).messages) < cfg.aggressive_threshold_seconds
         THEN cfg.ttl_aggressive_seconds
         ELSE cfg.ttl_seconds
    ELSE cfg.ttl_seconds

\* ttl_seconds as update_status_pill settles it (lines 758-764)
EffectiveTtl(cfg, data) ==
    IF HasMessages(data)
    THEN IF MinSeconds(Get(data).messages) < cfg.aggressive_threshold_seconds
         THEN cfg.ttl_aggressive_seconds
         ELSE Max(cfg.ttl_seconds, (cfg.poll_baseline_seconds * 3) \div 2)
    ELSE cfg.ttl_seconds

\* a variant of StaleDueAge: the age test is not strict
StaleDueAge_NotStrict(cfg, data, age) ==
    IF age = NoAge THEN TRUE ELSE age >= EffectiveTtl(cfg, data)

\* stale_due_age (lines 757, 765-767)
StaleDueAge(cfg, data, age) ==
    IF age = NoAge THEN TRUE ELSE age > EffectiveTtl(cfg, data)

\* a variant of IsStale: the failure count is compared for equality
IsStale_FailuresExactly(cfg, data, ok, age, unchanged, failures) ==
    \/ ~ok
    \/ StaleDueAge(cfg, data, age)
    \/ ~HasMessages(data)
    \/ unchanged >= cfg.stale_no_change_polls
    \/ failures = cfg.stale_failure_polls

\* is_stale (lines 777-780)
IsStale(cfg, data, ok, age, unchanged, failures) ==
    \/ ~ok
    \/ StaleDueAge(cfg, data, age)
    \/ ~HasMessages(data)
    \/ unchanged >= cfg.stale_no_change_polls
    \/ failures >= cfg.stale_failure_polls

StatusText(stale) == IF stale THEN "stale" ELSE "live"

(***************************************************************************)
(* FetchThread.run: the two branches of the try statement                  *)
(***************************************************************************)
\* line 108: self._backoff_seconds = self.config.poll_baseline_seconds
BackoffAfterSuccess(cfg) == cfg.poll_baseline_seconds

\* a variant of FlooredBackoff: the floor of 5 is missing
FlooredBackoff_NoFloor(b) == b

\* lines 113-114: if self._backoff_seconds < 5: self._backoff_seconds = 5
FlooredBackoff(b) == IF b < MinBackoff THEN MinBackoff ELSE b

\* line 115: delay = min(60, self._backoff_seconds), in hundredths of a second
FailureDelay(b) == Min(MaxBackoff, FlooredBackoff(b)) * 100

\* a variant of BackoffAfterFailure: the backoff is not doubled
BackoffAfterFailure_NoDoubling(b) == Min(MaxBackoff, FlooredBackoff(b))

\* line 116: self._backoff_seconds = min(60, self._backoff_seconds * 2)
BackoffAfterFailure(b) == Min(MaxBackoff, FlooredBackoff(b) * 2)

\* the signals of FetchThread
DataReceived(data) == [ kind |-> "data_received", data |-> data ]
FetchFailed == [ kind |-> "fetch_failed", error |-> "str(exc)" ]

\* what the try statement emits when _fetch_once returned or raised
EmitOnSuccess(data) == << DataReceived(data) >>
\* a variant of EmitOnFailure: the exception is swallowed, nothing is emitted
EmitOnFailure_Nothing == << >>

EmitOnFailure == << FetchFailed >>

(***************************************************************************)
(* Init: MainWindow.__init__ has returned, the thread has been started      *)
(***************************************************************************)
Init ==
    /\ config \in Configs
    /\ pc = "check"
    /\ stop_event = FALSE
    /\ backoff_seconds = InitialBackoff
    /\ delay = 0
    /\ sleep_left = 0
    /\ fetch_left = 0
    /\ session_closes = 0
    /\ response = None
    /\ queue = << >>
    /\ latest_data = None
    /\ last_fetch_ok = FALSE
    /\ fetch_age = NoAge
    /\ last_signature = None
    /\ unchanged_polls = 0
    /\ consecutive_failures = 0
    /\ status = "checking"
    /\ clock_due = FALSE
    /\ main_pc = "idle"
    /\ close_wait_left = 0
    /\ fail_run = 0
    /\ ever_ok = FALSE
    /\ fetches_after_stop = 0
    /\ events_after_stop = 0
    /\ fresh_run = 0

Running == main_pc # "exited"

(***************************************************************************)
(* FetchThread.run                                                         *)
(***************************************************************************)
\* line 101, stop set: leave the loop
LoopExit ==
    /\ Running /\ pc = "check" /\ stop_event
    /\ pc' = "close"
    /\ UNCHANGED <<config, response, stop_event, backoff_seconds, delay, sleep_left,
                   fetch_left, session_closes, queue, windowVars, clock_due,
                   main_pc, close_wait_left, fail_run, ever_ok,
                   fetches_after_stop, events_after_stop, fresh_run>>

\* a variant of LoopEnter: the loop condition does not read the stop signal
LoopEnter_NoStopCheck ==
    /\ Running /\ pc = "check"
    /\ IF delay # 0
       THEN pc' = "wait" /\ sleep_left' = SleepSeconds(delay)
       ELSE pc' = "try" /\ sleep_left' = sleep_left
    /\ UNCHANGED <<config, response, stop_event, backoff_seconds, delay,
                   fetch_left, session_closes, queue, windowVars, clock_due,
                   main_pc, close_wait_left, fail_run, ever_ok,
                   fetches_after_stop, events_after_stop, fresh_run>>

\* lines 101-103, stop not set: `if delay:` then start waiting, else go on
LoopEnter ==
    /\ Running /\ pc = "check" /\ ~stop_event
    /\ IF delay # 0
       THEN pc' = "wait" /\ sleep_left' = SleepSeconds(delay)
       ELSE pc' = "try" /\ sleep_left' = sleep_left
    /\ UNCHANGED <<config, response, stop_event, backoff_seconds, delay,
                   fetch_left, session_closes, queue, windowVars, clock_due,
                   main_pc, close_wait_left, fail_run, ever_ok,
                   fetches_after_stop, events_after_stop, fresh_run>>

\* lines 103-104: wait() returns True, break
WaitStopped ==
    /\ Running /\ pc = "wait" /\ stop_event
    /\ pc' = "close"
    /\ UNCHANGED <<config, response, stop_event, backoff_seconds, delay, sleep_left,
                   fetch_left, session_closes, queue, windowVars, clock_due,
                   main_pc, close_wait_left, fail_run, ever_ok,
                   fetches_after_stop, events_after_stop, fresh_run>>

\* line 103: wait() times out and returns False
WaitTimeout ==
    /\ Running /\ pc = "wait" /\ ~stop_event /\ sleep_left = 0
    /\ pc' = "try"
    /\ UNCHANGED <<config, response, stop_event, backoff_seconds, delay, sleep_left,
                   fetch_left, session_closes, queue, windowVars, clock_due,
                   main_pc, close_wait_left, fail_run, ever_ok,
                   fetches_after_stop, events_after_stop, fresh_run>>

\* lines 105-106, 123: session.get is sent
FetchBegin ==
    /\ Running /\ pc = "try"
    /\ pc' = "fetching"
    /\ fetch_left' \in FetchSeconds
    /\ fetches_after_stop' = fetches_after_stop + (IF stop_event THEN 1 ELSE 0)
    /\ UNCHANGED <<config, response, stop_event, backoff_seconds, delay, sleep_left,
                   session_closes, queue, windowVars, clock_due,
                   main_pc, close_wait_left, fail_run, ever_ok,
                   events_after_stop, fresh_run>>

\* the data of the last data_received signal sent or handled
LastSentData ==
    LET sent == SelectSeq(queue, LAMBDA e : e.kind = "data_received") IN
    IF sent # << >> THEN Some(sent[Len(sent)].data) ELSE latest_data

\* lines 106-109: _fetch_once returned `data`; u is the jitter sampled
FetchSucceed(data, u) ==
    /\ Running /\ pc = "fetching" /\ fetch_left = 0
    /\ Len(queue) + Len(EmitOnSuccess(data)) <= MaxQueue
    /\ (Some(data) = LastSentData) => unchanged_polls + Len(queue) < MaxUnchanged
    /\ queue' = queue \o EmitOnSuccess(data)
    /\ backoff_seconds' = BackoffAfterSuccess(config)
    /\ delay' = NextDelay(config, data, u)
    /\ pc' = "check"
    /\ fail_run' = 0
    /\ ever_ok' = TRUE
    /\ events_after_stop' =
           events_after_stop + (IF stop_event THEN Len(EmitOnSuccess(data)) ELSE 0)
    /\ UNCHANGED <<config, response, stop_event, sleep_left, fetch_left,
                   session_closes, windowVars, clock_due, main_pc,
                   close_wait_left, fetches_after_stop, fresh_run>>

\* a variant of FetchFail: the exception ends the loop
FetchFail_Fatal ==
    /\ Running /\ pc = "fetching" /\ fetch_left = 0
    /\ Len(queue) + Len(EmitOnFailure) <= MaxQueue
    /\ fail_run < MaxFailRun
    /\ queue' = queue \o EmitOnFailure
    /\ delay' = FailureDelay(backoff_seconds)
    /\ backoff_seconds' = BackoffAfterFailure(backoff_seconds)
    /\ pc' = "close"
    /\ fail_run' = fail_run + 1
    /\ events_after_stop' =
           events_after_stop + (IF stop_event THEN Len(EmitOnFailure) ELSE 0)
    /\ UNCHANGED <<config, response, stop_event, sleep_left, fetch_left,
                   session_closes, windowVars, clock_due, main_pc,
                   close_wait_left, ever_ok, fetches_after_stop, fresh_run>>

\* lines 110-116: _fetch_once raised
FetchFail ==
    /\ Running /\ pc = "fetching" /\ fetch_left = 0
    /\ Len(queue) + Len(EmitOnFailure) <= MaxQueue
    /\ fail_run < MaxFailRun
    /\ queue' = queue \o EmitOnFailure
    /\ delay' = FailureDelay(backoff_seconds)
    /\ backoff_seconds' = BackoffAfterFailure(backoff_seconds)
    /\ pc' = "check"
    /\ fail_run' = fail_run + 1
    /\ events_after_stop' =
           events_after_stop + (IF stop_event THEN Len(EmitOnFailure) ELSE 0)
    /\ UNCHANGED <<config, response, stop_event, sleep_left, fetch_left,
                   session_closes, windowVars, clock_due, main_pc,
                   close_wait_left, ever_ok, fetches_after_stop, fresh_run>>

\* lines 105-116: _fetch_once has returned or raised (outcome); the try
\* statement takes the branch it leads to
FetchComplete(outcome, u) ==
    /\ pc = "fetching" /\ fetch_left = 0
    /\ IF outcome.raised # None
       THEN FetchFail
       ELSE FetchSucceed(Get(outcome.value), u)

\* line 117: self.session.close(), run() returns
SessionClose ==
    /\ Running /\ pc = "close"
    /\ session_closes' = session_closes + 1
    /\ pc' = "done"
    /\ UNCHANGED <<config, response, stop_event, backoff_seconds, delay, sleep_left,
                   fetch_left, queue, windowVars, clock_due,
                   main_pc, close_wait_left, fail_run, ever_ok,
                   fetches_after_stop, events_after_stop, fresh_run>>

(***************************************************************************)
(* MainWindow: the slots, run by the Qt event loop of the main thread      *)
(***************************************************************************)
\* the event loop dispatches while no slot is running and the process lives
Dispatching == main_pc \in {"idle", "closed"}

\* a variant of UnchangedAfter: before the first snapshot the stored
\* fingerprint is taken to be the empty one
UnchangedAfter_NoneIsEmpty(signature, last, unchanged) ==
    IF Some(signature) = last \/ (last = None /\ signature = << >>)
    THEN unchanged + 1 ELSE 0

\* lines 704-709: the new unchanged_polls
UnchangedAfter(signature, last, unchanged) ==
    IF Some(signature) = last THEN unchanged + 1 ELSE 0

\* line 710: last_successful_fetch = now, so the age is zero
AgeAtFetch == 0

\* a variant of OnDataReceived: the failure counter is not reset
OnDataReceived_KeepsFailures ==
    /\ Dispatching /\ queue # << >> /\ Head(queue).kind = "data_received"
    /\ LET data == Head(queue).data
           signature == BuildSignature(Some(data))
       IN /\ latest_data' = Some(data)
          /\ last_fetch_ok' = TRUE
          /\ consecutive_failures' = consecutive_failures
          /\ unchanged_polls' =
                 UnchangedAfter(signature, last_signature, unchanged_polls)
          /\ last_signature' = Some(signature)
          /\ fetch_age' = AgeAtFetch
          /\ fresh_run' =
                 IF data.messages = << >> THEN -1
                 ELSE IF fresh_run = 0 THEN 1
                 ELSE IF fresh_run > 0 /\ latest_data = Some(data)
                      THEN fresh_run + 1
                 ELSE -1
    /\ status' = StatusText(IsStale(config, latest_data', last_fetch_ok',
                     fetch_age', unchanged_polls', consecutive_failures'))
    /\ queue' = Tail(queue)
    /\ UNCHANGED <<config, response, pollerVars, clock_due, main_pc, close_wait_left,
                   fail_run, ever_ok, fetches_after_stop, events_after_stop>>

\* lines 699-712
OnDataReceived ==
    /\ Dispatching /\ queue # << >> /\ Head(queue).kind = "data_received"
    /\ LET data == Head(queue).data
           signature == BuildSignature(Some(data))
       IN /\ latest_data' = Some(data)
          /\ last_fetch_ok' = TRUE
          /\ consecutive_failures' = 0
          /\ unchanged_polls' =
                 UnchangedAfter(signature, last_signature, unchanged_polls)
          /\ last_signature' = Some(signature)
          /\ fetch_age' = AgeAtFetch
          /\ fresh_run' =
                 IF data.messages = << >> THEN -1
                 ELSE IF fresh_run = 0 THEN 1
                 ELSE IF fresh_run > 0 /\ latest_data = Some(data)
                      THEN fresh_run + 1
                 ELSE -1
    /\ status' = StatusText(IsStale(config, latest_data', last_fetch_ok',
                     fetch_age', unchanged_polls', consecutive_failures'))
    /\ queue' = Tail(queue)
    /\ UNCHANGED <<config, response, pollerVars, clock_due, main_pc, close_wait_left,
                   fail_run, ever_ok, fetches_after_stop, events_after_stop>>

\* a variant of OnFetchFailed: a failure starts the unchanged-poll run anew
OnFetchFailed_ResetsUnchanged ==
    /\ Dispatching /\ queue # << >> /\ Head(queue).kind = "fetch_failed"
    /\ last_fetch_ok' = FALSE
    /\ consecutive_failures' = consecutive_failures + 1
    /\ unchanged_polls' = 0
    /\ status' = StatusText(IsStale(config, latest_data, last_fetch_ok',
                     fetch_age, unchanged_polls', consecutive_failures'))
    /\ fresh_run' = -1
    /\ queue' = Tail(queue)
    /\ UNCHANGED <<config, response, pollerVars, latest_data, fetch_age, last_signature,
                   clock_due, main_pc, close_wait_left,
                   fail_run, ever_ok, fetches_after_stop, events_after_stop>>

\* lines 714-718
OnFetchFailed ==
    /\ Dispatching /\ queue # << >> /\ Head(queue).kind = "fetch_failed"
    /\ last_fetch_ok' = FALSE
    /\ consecutive_failures' = consecutive_failures + 1
    /\ status' = StatusText(IsStale(config, latest_data, last_fetch_ok',
                     fetch_age, unchanged_polls, consecutive_failures'))
    /\ fresh_run' = -1
    /\ queue' = Tail(queue)
    /\ UNCHANGED <<config, response, pollerVars, latest_data, fetch_age, last_signature,
                   unchanged_polls, clock_due, main_pc, close_wait_left,
                   fail_run, ever_ok, fetches_after_stop, events_after_stop>>

\* a variant of UpdateClock: the clock slot evaluates the age and the
\* counters, and takes the last fetch for a success
UpdateClock_ForgetsFailure ==
    /\ Dispatching /\ clock_due
    /\ clock_due' = FALSE
    /\ status' = StatusText(IsStale(config, latest_data, TRUE,
                     fetch_age, unchanged_polls, consecutive_failures))
    /\ UNCHANGED <<config, response, pollerVars, queue, latest_data, last_fetch_ok,
                   fetch_age, last_signature, unchanged_polls,
                   consecutive_failures, main_pc, close_wait_left,
                   fail_run, ever_ok, fetches_after_stop, events_after_stop,
                   fresh_run>>

\* lines 692-697: clock_timer's timeout slot
UpdateClock ==
    /\ Dispatching /\ clock_due
    /\ clock_due' = FALSE
    /\ status' = StatusText(IsStale(config, latest_data, last_fetch_ok,
                     fetch_age, unchanged_polls, consecutive_failures))
    /\ UNCHANGED <<config, response, pollerVars, queue, latest_data, last_fetch_ok,
                   fetch_age, last_signature, unchanged_polls,
                   consecutive_failures, main_pc, close_wait_left,
                   fail_run, ever_ok, fetches_after_stop, events_after_stop,
                   fresh_run>>

\* lines 794-797 and 119-120: closeEvent calls stop() and starts wait(2000)
CloseEvent ==
    /\ main_pc = "idle"
    /\ stop_event' = TRUE
    /\ main_pc' = "close_wait"
    /\ close_wait_left' = CloseWaitSeconds
    /\ UNCHANGED <<config, response, pc, backoff_seconds, delay, sleep_left,
                   fetch_left, session_closes, queue, windowVars, clock_due,
                   fail_run, ever_ok, fetches_after_stop, events_after_stop,
                   fresh_run>>

\* line 797: wait(2000) returns True, run() has returned
CloseWaitFinished ==
    /\ main_pc = "close_wait" /\ pc = "done"
    /\ main_pc' = "closed"
    /\ UNCHANGED <<config, response, pollerVars, queue, windowVars, clock_due,
                   close_wait_left, fail_run, ever_ok, fetches_after_stop,
                   events_after_stop, fresh_run>>

\* line 797: wait(2000) returns False after two seconds, the thread still runs
CloseWaitTimeout ==
    /\ main_pc = "close_wait" /\ pc # "done" /\ close_wait_left = 0
    /\ main_pc' = "closed"
    /\ UNCHANGED <<config, response, pollerVars, queue, windowVars, clock_due,
                   close_wait_left, fail_run, ever_ok, fetches_after_stop,
                   events_after_stop, fresh_run>>

\* lines 798, 903, 907: the window closes, app.exec() returns, sys.exit
ProcessExit ==
    /\ main_pc = "closed"
    /\ main_pc' = "exited"
    /\ UNCHANGED <<config, response, pollerVars, queue, windowVars, clock_due,
                   close_wait_left, fail_run, ever_ok, fetches_after_stop,
                   events_after_stop, fresh_run>>

(***************************************************************************)
(* Time passes, up to the next instant at which something can happen.      *)
(* Steps that take no time come first: the thread between two blocking     *)
(* calls, a posted signal or timer slot while the event loop dispatches,    *)
(* the return of a wait whose condition holds.                              *)
(***************************************************************************)
\* the age above which every TTL of the configuration is exceeded: ages
\* beyond it are kept as this one
AgeCeiling(cfg) ==
    Max(Max(cfg.ttl_seconds, cfg.ttl_aggressive_seconds),
        (cfg.poll_baseline_seconds * 3) \div 2) + 1

\* the timers that are running, in whole seconds
Timers ==
    (IF pc = "wait" THEN {sleep_left} ELSE {})
    \cup (IF pc = "fetching" THEN {fetch_left} ELSE {})
    \cup (IF main_pc = "close_wait" THEN {close_wait_left} ELSE {})
    \cup (IF fetch_age # NoAge /\ fetch_age <= EffectiveTtl(config, latest_data)
          THEN {EffectiveTtl(config, latest_data) + 1 - fetch_age} ELSE {})

SetMin(S) == CHOOSE x \in S : \A y \in S : x <= y

Tick ==
    /\ main_pc \in {"idle", "close_wait"}
    /\ pc \in {"wait", "fetching", "done"}
    /\ pc = "wait" => ~stop_event
    /\ main_pc = "idle" => (queue = << >> /\ ~clock_due)
    /\ main_pc = "close_wait" => pc # "done"
    /\ Timers # {}
    /\ \A t \in Timers : t > 0
    /\ LET n == SetMin(Timers) IN
       /\ sleep_left' = IF pc = "wait" THEN sleep_left - n ELSE sleep_left
       /\ fetch_left' = IF pc = "fetching" THEN fetch_left - n ELSE fetch_left
       /\ close_wait_left' =
              IF main_pc = "close_wait" THEN close_wait_left - n
              ELSE close_wait_left
       /\ fetch_age' = IF fetch_age = NoAge THEN NoAge
                       ELSE Min(AgeCeiling(config), fetch_age + n)
    /\ clock_due' = TRUE
    /\ UNCHANGED <<config, response, pc, stop_event, backoff_seconds, delay,
                   session_closes, queue, latest_data, last_fetch_ok,
                   last_signature, unchanged_polls, consecutive_failures,
                   status, main_pc, fail_run, ever_ok, fetches_after_stop,
                   events_after_stop, fresh_run>>

Poller ==
    \/ LoopExit
    \/ LoopEnter
    \/ WaitStopped
    \/ WaitTimeout
    \/ FetchBegin
    \/ \E outcome \in FeedOutcomes : \E u \in JitterSamples(config) :
           FetchComplete(outcome, u)
    \/ SessionClose

Window ==
    \/ OnDataReceived
    \/ OnFetchFailed
    \/ UpdateClock

Next ==
    \/ Poller
    \/ Window
    \/ CloseEvent
    \/ CloseWaitFinished
    \/ CloseWaitTimeout
    \/ ProcessExit
    \/ Tick

Spec == Init /\ [][Next]_vars

\* The thread is scheduled, the event loop dispatches what is posted to it, and
\* time passes.  Nothing is assumed of the user (CloseEvent).
Fairness == WF_vars(Poller) /\ WF_vars(Window) /\ WF_vars(Tick)

LiveSpec == Init /\ [][Next]_vars /\ Fairness

(***************************************************************************)
(* update_status_pill on its own: every combination of the display state   *)
(* it reads, then the clock slot evaluates it.                              *)
(***************************************************************************)
\* the ages the evaluation is tried at: every age up to the ceiling, and the
\* 200 seconds of the scenario
EvalAges(cfg) == (0..AgeCeiling(cfg)) \cup {200}

EvalInit ==
    /\ config \in EvalConfigs
    /\ pc = "wait"
    /\ stop_event = FALSE
    /\ backoff_seconds = InitialBackoff
    /\ delay = MinDelay * 100
    /\ sleep_left = MinDelay
    /\ fetch_left = 0
    /\ session_closes = 0
    /\ response = None
    /\ queue = << >>
    /\ latest_data \in {None} \cup {Some(d) : d \in Snapshots}
    /\ last_fetch_ok \in BOOLEAN
    /\ fetch_age \in {NoAge} \cup EvalAges(config)
    /\ last_signature = Some(BuildSignature(latest_data))
    /\ unchanged_polls \in 0..MaxUnchanged
    /\ consecutive_failures \in 0..MaxUnchanged
    /\ status = "checking"
    /\ clock_due = TRUE
    /\ main_pc = "idle"
    /\ close_wait_left = 0
    /\ fail_run = 0
    /\ ever_ok = FALSE
    /\ fetches_after_stop = 0
    /\ events_after_stop = 0
    /\ fresh_run = -1

EvalSpec == EvalInit /\ [][UpdateClock]_vars

(***************************************************************************)
(* One fetch on its own: the first request of a freshly started thread is  *)
(* in flight, the feed answers it with any of FetchInputs, the try         *)
(* statement of run() handles the answer and the window handles the        *)
(* signal.                                                                 *)
(***************************************************************************)
ToNJ == << "T", "o", "N", "J" >>

\* secondsToArrival is no number, and the timestamp is the latest of all
RawBadSeconds ==
    [ RawNWK EXCEPT !.secondsToArrival = Some(JStr(<< "a", "b", "c" >>)),
                    !.lastUpdated = Some(IsoText(725, Some(0 - 300))) ]
\* no secondsToArrival key, and a timestamp fromisoformat rejects
RawNoSeconds ==
    [ RawJSQ EXCEPT !.secondsToArrival = None,
                    !.lastUpdated = Some(OtherText) ]
\* secondsToArrival is null, no lastUpdated key
RawNullSeconds ==
    [ RawJSQ EXCEPT !.secondsToArrival = Some(JNull),
                    !.lastUpdated = None ]
\* padded texts, several colours, no headSign, a naive timestamp (17:01, the
\* instant of RawWTC's 12:01-05:00)
RawPadded ==
    RawMessage(Some(<< " ", "J", "S", "Q", " " >>),
               Some(JStr(<< " ", "8", "0", " " >>)),
               Some(<< "1", " ", "m", "i", "n", " " >>),
               Some(<< "#", "f", "9", "0", ",", " ", ",", "4", "D", "9", "2",
                       "F", "B", ",", "0", "0", "0" >>),
               None,
               Some(IsoText(1021, None)))
\* secondsToArrival is a JSON number, the timestamp is the empty text
RawNumber ==
    [ Raw33S EXCEPT !.secondsToArrival = Some(JNum(200)),
                    !.lastUpdated = Some(EmptyText) ]
\* a train of the second destination, sooner than those of the first
RawSooner ==
    [ RawJSQ EXCEPT !.secondsToArrival = Some(JStr(<< "1", "0", "0" >>)),
                    !.lastUpdated = Some(IsoText(722, Some(0 - 300))) ]

FeedRawMessages ==
    { RawWTC, Raw33S, RawBadSeconds, RawNoSeconds, RawNullSeconds,
      RawPadded, RawNumber }

\* the sequences of at most n elements of S
RECURSIVE SeqsUpTo(_, _)
SeqsUpTo(S, n) ==
    IF n = 0 THEN { << >> }
    ELSE SeqsUpTo(S, n - 1)
         \cup { Append(q, x) : q \in { r \in SeqsUpTo(S, n - 1) : Len(r) = n - 1 },
                               x \in S }

\* what can follow the first destination
MoreDestinations ==
    { << >>,
      << Destination(Some(ToNJ), Some(<< RawSooner >>)) >>,
      << Destination(None, None) >> }

\* the entries of the configured station
StationEntries ==
    { StationEntry(Some("HOB"),
                   Some(<< Destination(Some(ToNY), Some(msgs)) >> \o more)) :
        msgs \in SeqsUpTo(FeedRawMessages, MaxMessages),
        more \in MoreDestinations }
    \cup { StationEntry(Some("HOB"), None) }

OtherStationEntry ==
    StationEntry(Some("NWK"),
                 Some(<< Destination(Some(ToNJ), Some(<< RawNWK >>)) >>))
NoStationEntry == StationEntry(None, None)

FeedPayloads ==
    { Payload(Some(ResultsList(<< e >>))) : e \in StationEntries }
    \cup { Payload(Some(ResultsList(<< OtherStationEntry, e >>))) :
             e \in StationEntries }
    \cup { Payload(Some(ResultsList(items))) :
             items \in { << >>,
                         << OtherStationEntry >>,
                         << NoStationEntry >>,
                         << OtherStationEntry, NoStationEntry >>,
                         << NullEntry >>,
                         << OtherStationEntry, NullEntry >>,
                         << StationEntry(Some("HOB"), None), NullEntry >>,
                         << NullEntry, StationEntry(Some("HOB"), None) >> } }
    \cup { Payload(None), Payload(Some(ResultsNotAList)), NotAnObject }

FetchInputs ==
    { HttpResponse(200, TRUE, p) : p \in FeedPayloads }
    \cup { HttpResponse(code, TRUE, PayloadOf(<< Raw33S, RawWTC >>)) :
             code \in {404, 503} }
    \cup { HttpResponse(200, FALSE, NotAnObject), TransportError }

FetchInit ==
    /\ config \in Configs
    /\ pc = "fetching"
    /\ stop_event = FALSE
    /\ backoff_seconds = InitialBackoff
    /\ delay = 0
    /\ sleep_left = 0
    /\ fetch_left = 0
    /\ session_closes = 0
    /\ response \in { Some(r) : r \in FetchInputs }
    /\ queue = << >>
    /\ latest_data = None
    /\ last_fetch_ok = FALSE
    /\ fetch_age = NoAge
    /\ last_signature = None
    /\ unchanged_polls = 0
    /\ consecutive_failures = 0
    /\ status = "checking"
    /\ clock_due = FALSE
    /\ main_pc = "idle"
    /\ close_wait_left = 0
    /\ fail_run = 0
    /\ ever_ok = FALSE
    /\ fetches_after_stop = 0
    /\ events_after_stop = 0
    /\ fresh_run = 0

\* the recorded response is the one session.get gives
FetchReturn ==
    /\ response # None
    /\ \E u \in JitterSamples(config) :
           FetchComplete(FetchOnce(Get(response), config.station), u)

FetchNext ==
    \/ FetchReturn
    \/ OnDataReceived
    \/ OnFetchFailed

FetchSpec == FetchInit /\ [][FetchNext]_vars

(***************************************************************************)
(* The engine as it runs out of the box: config.json is missing or         *)
(* unreadable and load_config returns DEFAULT_CONFIG.                      *)
(***************************************************************************)
DefaultInit ==
    /\ config = DEFAULT_CONFIG
    /\ pc = "check"
    /\ stop_event = FALSE
    /\ backoff_seconds = InitialBackoff
    /\ delay = 0
    /\ sleep_left = 0
    /\ fetch_left = 0
    /\ session_closes = 0
    /\ response = None
    /\ queue = << >>
    /\ latest_data = None
    /\ last_fetch_ok = FALSE
    /\ fetch_age = NoAge
    /\ last_signature = None
    /\ unchanged_polls = 0
    /\ consecutive_failures = 0
    /\ status = "checking"
    /\ clock_due = FALSE
    /\ main_pc = "idle"
    /\ close_wait_left = 0
    /\ fail_run = 0
    /\ ever_ok = FALSE
    /\ fetches_after_stop = 0
    /\ events_after_stop = 0
    /\ fresh_run = 0

DefaultSpec == DefaultInit /\ [][Next]_vars

(***************************************************************************)
(* Properties                                                              *)
(***************************************************************************)

\* C1: the status update_status_pill shows is stale exactly when the last
\* fetch failed, or there was no successful fetch yet, or the age of the last
\* successful fetch is strictly above the effective TTL, or the snapshot is
\* absent or has no messages, or unchanged_polls >= stale_no_change_polls, or
\* consecutive_failures >= stale_failure_polls; otherwise it is live, and it
\* is never anything else.
C1_StaleExactlyWhen ==
    status # "checking" =>
        /\ status \in {"live", "stale"}
        /\ status = "stale" <=>
              \/ last_fetch_ok = FALSE
              \/ fetch_age = NoAge
              \/ fetch_age > EffectiveTtl(config, latest_data)
              \/ latest_data = None
              \/ Get(latest_data).messages = << >>
              \/ unchanged_polls >= config.stale_no_change_polls
              \/ consecutive_failures >= config.stale_failure_polls

\* C1 witness: the scenario of the spec. Default configuration (ttl 45), last
\* successful fetch 200 s ago, soonest arrival not under the aggressive
\* threshold, no other condition: evaluated, and stale by age alone.
C1_Witness ==
    /\ config = DEFAULT_CONFIG
    /\ status = "stale"
    /\ last_fetch_ok
    /\ fetch_age = 200
    /\ latest_data = Some(StationData(<<Msg33S>>, Msg33S.last_updated))
    /\ unchanged_polls = 0
    /\ consecutive_failures = 0

\* the base interval as C2 words it
C2_Base(cfg, data) ==
    IF Len(data.messages) = 0 THEN cfg.poll_background_seconds
    ELSE IF \E i \in 1..Len(data.messages) :
               data.messages[i].seconds_to_arrival < cfg.aggressive_threshold_seconds
         THEN cfg.poll_aggressive_seconds
    ELSE IF \A i \in 1..Len(data.messages) :
               data.messages[i].seconds_to_arrival > cfg.relaxed_threshold_seconds
         THEN cfg.poll_relaxed_seconds
    ELSE cfg.poll_baseline_seconds

\* d (hundredths of a second) is max(5, base * f) for some f in
\* [1 - jitter_ratio, 1 + jitter_ratio]
C2_DelayOk(cfg, data, d) ==
    LET lo == C2_Base(cfg, data) * (100 - cfg.jitter_pct)
        hi == C2_Base(cfg, data) * (100 + cfg.jitter_pct)
    IN /\ d >= 500
       /\ \/ d = 500 /\ lo <= 500
          \/ lo <= d /\ d <= hi

\* C2: the delay chosen after a successful fetch is max(5, base * f), f within
\* the jitter ratio of 1, base chosen from the snapshot: background when it has
\* no messages, else aggressive when the soonest arrival is strictly below the
\* aggressive threshold, else relaxed when it is strictly above the relaxed
\* threshold, else baseline; never below 5 seconds.
C2_NextDelay ==
    [][ (pc = "fetching" /\ pc' = "check" /\ Len(queue') = Len(queue) + 1
            /\ queue'[Len(queue')].kind = "data_received")
        => C2_DelayOk(config, queue'[Len(queue')].data, delay') ]_vars

\* C2 witness: a success whose jittered interval (6 s * 0.5) fell under the
\* floor, so that the delay is 5 seconds
C2_Witness ==
    /\ pc = "check" /\ ever_ok /\ fail_run = 0
    /\ config.jitter_pct = 50
    /\ delay = 500

\* the delays 5, 10, 20, 40, 60, 60, ... of C3
C3_Sequence(k) == IF k >= 5 THEN 60 ELSE 5 * 2^(k - 1)

\* C3: from a fresh poller, when the first n fetches all fail, the n-th retry
\* delay is the n-th of 5, 10, 20, 40, 60, 60, ...; and within any run of
\* failures each delay is twice the one before, capped at 60.
C3_BackoffSequence ==
    /\ [](( ~ever_ok /\ fail_run >= 1) => delay = 100 * C3_Sequence(fail_run))
    /\ [][ (fail_run >= 1 /\ fail_run' = fail_run + 1)
           => delay' = Min(6000, 2 * delay) ]_vars

\* C3 witness: six failures from the start, the sixth delay is the second 60
C3_Witness == ~ever_ok /\ fail_run = 6 /\ delay = 6000 /\ pc = "check"

\* C4 (the claim as stated): a success resets the backoff to 5, so the first
\* failure after a success is retried after 5 seconds
C4_FirstRetryAfterSuccessIsFive ==
    /\ (ever_ok /\ fail_run = 0) => backoff_seconds = 5
    /\ (ever_ok /\ fail_run = 1) => delay = 500

\* C5: every delay computed after a failed fetch is between 5 and 60 seconds
C5_FailureDelayBounds ==
    fail_run >= 1 => (500 <= delay /\ delay <= 6000)

\* C5 witness: a failure right after a success, with poll_baseline_seconds
\* above 60 (the backoff was reset to 61): the delay is 60
C5_Witness ==
    /\ config.poll_baseline_seconds > 60
    /\ ever_ok /\ fail_run = 1 /\ pc = "check"
    /\ delay = 6000

\* C6 (the claim as stated): stale_no_change_polls = 3, the window has handled
\* k identical non-empty snapshots and nothing else, the last one just now: the
\* status is live for k = 1, 2 and stale for k = 3
C6_StaleOnThirdIdentical ==
    (config.stale_no_change_polls = 3 /\ fetch_age = 0 /\ fresh_run >= 1)
    => /\ fresh_run \in {1, 2} => status = "live"
       /\ fresh_run = 3 => status = "stale"

\* C7 (the claim as stated): no fetch begins once the stop signal is set,
\* wherever stop() falls in the loop
C7_NoFetchAfterStop == fetches_after_stop = 0

\* C7 (amended): once the stop signal is set the thread only moves towards
\* the end of run(): a wait returns at once and leaves the loop, the loop
\* condition leaves the loop, a fetch in flight completes and is followed by
\* the loop condition. A fetch begins after stop() only from the point between
\* the last test of the signal and session.get, so at most once.
C7_OnlyThePendingFetchAfterStop ==
    [][ stop_event =>
          /\ \/ pc' = pc
             \/ pc \in {"check", "wait"} /\ pc' = "close"
             \/ pc = "try" /\ pc' = "fetching"
             \/ pc = "fetching" /\ pc' = "check"
             \/ pc = "close" /\ pc' = "done"
          /\ fetches_after_stop' <= 1 ]_vars

\* C7 witness: stop() fell between the end of a sleep and session.get; the
\* fetch ran, and then the loop ended
C7_Witness ==
    /\ stop_event /\ pc = "done"
    /\ fetches_after_stop = 1
    /\ delay # 0

\* C8: every completed fetch emits exactly one signal, data_received or
\* fetch_failed, and nothing else of the thread emits
C8_OneEventPerCycle ==
    [][ /\ (pc = "fetching" /\ pc' # "fetching")
            => /\ Len(queue') = Len(queue) + 1
               /\ SubSeq(queue', 1, Len(queue)) = queue
               /\ queue'[Len(queue')].kind \in {"data_received", "fetch_failed"}
        /\ Len(queue') > Len(queue) => (pc = "fetching" /\ pc' # "fetching")
      ]_vars

\* C8 witness: two cycles, one signal each, one of each kind: the window has
\* handled a fetch_failed, and the data_received of the next cycle is posted
C8_Witness ==
    /\ pc = "check"
    /\ consecutive_failures = 1
    /\ Len(queue) = 1
    /\ queue[1].kind = "data_received"

\* C9: after a failed fetch, unless the stop signal is set, the thread begins
\* another fetch
C9_FailureIsNotFatal ==
    [](( fail_run >= 1 /\ pc # "fetching" /\ ~stop_event)
         => <>(pc = "fetching" \/ stop_event))

\* C9 witness: after as many failures in a row as the model allows, the next
\* fetch is in flight
C9_Witness == fail_run = MaxFailRun /\ pc = "fetching" /\ ~stop_event

\* C10 (the claim as stated): when closeEvent returns, run() has returned
C10_PollerExitedWhenCloseReturns ==
    main_pc \in {"closed", "exited"} => pc = "done"

(***************************************************************************)
(* Properties of one fetch (FetchSpec)                                     *)
(***************************************************************************)
\* the fetch has returned and its signal is posted, not yet handled
Delivered == response # None /\ pc = "check" /\ Len(queue) = 1
\* ... and the signal is data_received
Parsed == Delivered /\ queue[1].kind = "data_received"

\* the response carries a success status and a body that is JSON
IsJsonResponse(r) ==
    r.kind = "response" /\ r.status \in 200..299 /\ r.json

\* C11 (the claim as stated), for the answers that are no JSON payload (those
\* that are one come with C12): a success status with a body that is not JSON
\* gives data_received with the empty snapshot and counts as no failure; only
\* an exception of the transport or a non-success status gives fetch_failed
\* and counts as a failure
C11_MalformedBodyIsEmptySnapshot ==
    (response # None /\ pc = "check" /\ ~IsJsonResponse(Get(response))) =>
        LET r == Get(response)
            malformed == r.kind = "response" /\ r.status \in 200..299 /\ ~r.json
            failing == r.kind = "exception"
                       \/ (r.kind = "response" /\ r.status \notin 200..299)
        IN /\ malformed =>
                /\ fail_run = 0
                /\ consecutive_failures = 0
                /\ \A i \in 1..Len(queue) :
                       /\ queue[i].kind = "data_received"
                       /\ queue[i].data = EmptyStationData
                /\ queue = << >> => latest_data = Some(EmptyStationData)
           /\ ((\E i \in 1..Len(queue) : queue[i].kind = "fetch_failed")
               \/ fail_run >= 1 \/ consecutive_failures >= 1) => failing

\* the payload has no entry for the station: it is no object, has no results,
\* results is no list, or no entry of the list names the station
C12_NoEntryFor(payload, station_code) ==
    \/ payload.type # "object"
    \/ payload.results = None
    \/ Get(payload.results).type # "array"
    \/ \A i \in 1..Len(Get(payload.results).items) :
           Get(payload.results).items[i].consideredStation # Some(station_code)

\* C12 (the claim as stated): whenever the payload has no entry for the
\* configured station, parse_station_data raises nothing and returns the empty
\* snapshot (no messages, no timestamp)
C12_MissingStationIsEmptySnapshot ==
    (Delivered /\ IsJsonResponse(Get(response))
       /\ C12_NoEntryFor(Get(response).payload, config.station))
    => /\ queue[1].kind = "data_received"
       /\ queue[1].data = EmptyStationData

\* C13: the messages of every snapshot parse_station_data returns are in
\* ascending order of seconds_to_arrival, whatever destination they come from
C13_MessagesAscending ==
    Parsed =>
        \A i, j \in 1..Len(queue[1].data.messages) :
            i < j => queue[1].data.messages[i].seconds_to_arrival
                       <= queue[1].data.messages[j].seconds_to_arrival

\* C13 witness: three messages, the one of the second destination sorted
\* before the two of the first
C13_Witness ==
    /\ Parsed
    /\ Len(queue[1].data.messages) = 3
    /\ queue[1].data.messages[1].label = ToNJ
    /\ queue[1].data.messages[2].label = ToNY
    /\ queue[1].data.messages[3].label = ToNY

\* the raw messages of the entry parse_station_data uses, all destinations
RECURSIVE RawMessagesOf(_)
RawMessagesOf(destinations) ==
    IF destinations = << >> THEN << >>
    ELSE (IF Head(destinations).messages = None THEN << >>
          ELSE Get(Head(destinations).messages))
         \o RawMessagesOf(Tail(destinations))

UsedRawMessages(payload, station_code) ==
    LET items == Get(payload.results).items
        k == CHOOSE i \in 1..Len(items) :
                 /\ items[i].consideredStation = Some(station_code)
                 /\ \A j \in 1..(i - 1) :
                        items[j].consideredStation # Some(station_code)
    IN IF items[k].destinations = None THEN << >>
       ELSE RawMessagesOf(Get(items[k].destinations))

\* the feed's secondsToArrival of a raw message as an integer; None when it
\* is no integer
FeedSeconds(raw_msg) ==
    IF raw_msg.secondsToArrival = None THEN Some(0)
    ELSE PyInt(Get(raw_msg.secondsToArrival))

\* the snapshot's seconds_to_arrival are the feed's values less `offset`:
\* as many messages as the feed has integer values, and each value as often
SecondsAreFeedLess(offset) ==
    LET msgs == queue[1].data.messages
        raw == UsedRawMessages(Get(response).payload, config.station)
        kept == { i \in 1..Len(raw) : FeedSeconds(raw[i]) # None }
    IN /\ Len(msgs) = Cardinality(kept)
       /\ \A i \in kept :
              Cardinality({ j \in 1..Len(msgs) :
                  msgs[j].seconds_to_arrival = Get(FeedSeconds(raw[i])) - offset })
              = Cardinality({ j \in kept : FeedSeconds(raw[j]) = FeedSeconds(raw[i]) })

\* the payload of the scenario: station HOB, messages of 300 and 120 seconds
ScenarioResponse == HttpResponse(200, TRUE, PayloadOf(<< Raw33S, RawWTC >>))

C15_SecondsLessSixty ==
    (Parsed /\ queue[1].data.messages # << >>) =>
        /\ SecondsAreFeedLess(60)
        /\ response = Some(ScenarioResponse) =>
              /\ Len(queue[1].data.messages) = 2
              /\ queue[1].data.messages[1].seconds_to_arrival = 60
              /\ queue[1].data.messages[2].seconds_to_arrival = 240

\* the instant a timestamp text denotes, a naive one read as UTC; None when
\* the text is absent, empty or no ISO timestamp
StampInstant(value) ==
    IF value = None \/ Get(value).kind # "iso" THEN None
    ELSE IF Get(value).offset = None THEN Some(Get(value).wall)
    ELSE Some(Get(value).wall - Get(Get(value).offset))

\* C16: the snapshot's last_updated is the latest instant among the
\* timestamps of its messages (the raw messages that were kept), a naive
\* timestamp read as UTC, and it is None exactly when none of them has a
\* timestamp that parses
C16_LastUpdatedIsLatest ==
    Parsed =>
        LET data == queue[1].data
            raw == IF data.messages = << >> THEN << >>
                   ELSE UsedRawMessages(Get(response).payload, config.station)
            instants == { Get(StampInstant(raw[i].lastUpdated)) :
                            i \in { k \in 1..Len(raw) :
                                      /\ FeedSeconds(raw[k]) # None
                                      /\ StampInstant(raw[k].lastUpdated) # None } }
        IN /\ data.last_updated = None <=> instants = {}
           /\ data.last_updated # None =>
                 /\ Instant(Get(data.last_updated)) \in instants
                 /\ \A t \in instants : t <= Instant(Get(data.last_updated))

\* C16 witness: the latest timestamp of the payload belongs to a message that
\* was skipped; of the two kept, the second (of another destination) has the
\* later timestamp, the first a naive one
C16_Witness ==
    /\ Parsed
    /\ Len(queue[1].data.messages) = 2
    /\ queue[1].data.messages[1].last_updated = Some(DateTime(1021, UtcOffset))
    /\ queue[1].data.messages[2].last_updated = Some(DateTime(722, 0 - 300))
    /\ queue[1].data.last_updated = Some(DateTime(722, 0 - 300))
    /\ UsedRawMessages(Get(response).payload, config.station)[1] = RawBadSeconds

(***************************************************************************)
(* Properties of the evaluator and of the window, continued                *)
(***************************************************************************)
\* C17: with the other inputs as they are, a status that is stale stays stale
\* when consecutive_failures is raised, when unchanged_polls is raised, and
\* when the age of the last successful fetch is raised; and with
\* consecutive_failures at stale_failure_polls or above the status is stale
C17_StalenessMonotonic ==
    status # "checking" =>
        /\ status = "stale" =>
              /\ \A f \in consecutive_failures..(MaxUnchanged + 1) :
                     IsStale(config, latest_data, last_fetch_ok, fetch_age,
                             unchanged_polls, f)
              /\ \A n \in unchanged_polls..(MaxUnchanged + 1) :
                     IsStale(config, latest_data, last_fetch_ok, fetch_age,
                             n, consecutive_failures)
              /\ fetch_age # NoAge =>
                     \A a \in { x \in EvalAges(config) : x >= fetch_age } :
                         IsStale(config, latest_data, last_fetch_ok, a,
                                 unchanged_polls, consecutive_failures)
        /\ consecutive_failures >= config.stale_failure_polls
               => status = "stale"

\* C17 witness: evaluated with consecutive_failures at the threshold and no
\* other reason to be stale
C17_Witness ==
    /\ status = "stale"
    /\ consecutive_failures = config.stale_failure_polls
    /\ consecutive_failures < MaxUnchanged
    /\ last_fetch_ok
    /\ fetch_age = 0
    /\ HasMessages(latest_data)
    /\ unchanged_polls = 0

\* the fingerprint as C18 words it
C18_Fingerprint(data) ==
    [ i \in 1..Len(data.messages) |->
        << data.messages[i].headsign, data.messages[i].target,
           data.messages[i].seconds_to_arrival,
           data.messages[i].arrival_message, data.messages[i].line_colors >> ]

\* C18: handling a data_received signal, the window compares the fingerprint
\* of the snapshot with the stored one: equal, unchanged_polls goes up by one
\* and the stored fingerprint stays; else unchanged_polls is zero and the new
\* fingerprint is stored. With nothing stored yet the snapshot counts as
\* changed, also the empty one.
C18_FingerprintTracking ==
    [][ (queue # << >> /\ Head(queue).kind = "data_received"
           /\ queue' = Tail(queue))
        => /\ IF last_signature = Some(C18_Fingerprint(Head(queue).data))
              THEN /\ unchanged_polls' = unchanged_polls + 1
                   /\ last_signature' = last_signature
              ELSE /\ unchanged_polls' = 0
                   /\ last_signature' = Some(C18_Fingerprint(Head(queue).data))
           /\ last_signature = None => unchanged_polls' = 0 ]_vars

\* C18 witness: the empty snapshot came first and then once more: the first
\* counted as changed, the second as unchanged
C18_Witness ==
    /\ latest_data = Some(EmptyStationData)
    /\ last_signature = Some(<< >>)
    /\ unchanged_polls = 1
    /\ ever_ok /\ fail_run = 0 /\ consecutive_failures = 0
    /\ session_closes = 0

\* C19 (the claim as stated): the TTL of the age test is
\* ttl_aggressive_seconds when the snapshot has messages and the soonest is
\* strictly below the aggressive threshold; in every other case it is
\* max(ttl_seconds, 1.5 * poll_baseline_seconds)
C19_EffectiveTtl ==
    status # "checking" =>
        LET ttl == EffectiveTtl(config, latest_data) IN
        IF /\ latest_data # None
           /\ Get(latest_data).messages # << >>
           /\ \E i \in 1..Len(Get(latest_data).messages) :
                  Get(latest_data).messages[i].seconds_to_arrival
                      < config.aggressive_threshold_seconds
        THEN ttl = config.ttl_aggressive_seconds
        ELSE /\ 2 * ttl >= 3 * config.poll_baseline_seconds
             /\ ttl >= config.ttl_seconds
             /\ 2 * ttl = Max(2 * config.ttl_seconds,
                              3 * config.poll_baseline_seconds)

\* the TTL as C19 is amended: 1.5 * poll_baseline_seconds is rounded down to
\* whole seconds, and the TTL is widened only for a snapshot with messages
C19_AmendedTtl(cfg, data) ==
    IF data # None /\ Get(data).messages # << >>
    THEN IF \E i \in 1..Len(Get(data).messages) :
                Get(data).messages[i].seconds_to_arrival
                    < cfg.aggressive_threshold_seconds
         THEN cfg.ttl_aggressive_seconds
         ELSE Max(cfg.ttl_seconds,
                  (3 * cfg.poll_baseline_seconds
                     - ((3 * cfg.poll_baseline_seconds) % 2)) \div 2)
    ELSE cfg.ttl_seconds

\* C19 (amended): the TTL of the age test is ttl_aggressive_seconds when the
\* snapshot has messages and the soonest is strictly below the aggressive
\* threshold; max(ttl_seconds, 1.5 * poll_baseline_seconds rounded down) when
\* it has messages and the soonest is not below the threshold; and ttl_seconds
\* itself when there is no snapshot or it has no messages. When nothing else
\* makes the status stale, it is stale exactly when the age is above this TTL.
C19_EffectiveTtlAmended ==
    status # "checking" =>
        /\ EffectiveTtl(config, latest_data) = C19_AmendedTtl(config, latest_data)
        /\ ( /\ latest_data # None /\ Get(latest_data).messages # << >>
             /\ last_fetch_ok /\ fetch_age # NoAge
             /\ unchanged_polls < config.stale_no_change_polls
             /\ consecutive_failures < config.stale_failure_polls )
           => (status = "stale"
                 <=> fetch_age > C19_AmendedTtl(config, latest_data))

\* C19 witness: poll_baseline_seconds 61 and ttl_seconds 10, a snapshot whose
\* soonest arrival is not below the threshold, aged 91 seconds (the widened
\* TTL): still live
C19_Witness ==
    /\ status = "live"
    /\ config.poll_baseline_seconds = 61
    /\ config.ttl_seconds = 10
    /\ latest_data # None
    /\ Get(latest_data).messages = << MsgJSQ >>
    /\ fetch_age = 91

\* C20 (the claim as stated): default configuration, the last fetch succeeded
\* and brought a non-empty snapshot that differs from the one before; while
\* the thread sleeps until the next fetch, every clock tick shows live
C20_LiveBetweenFetches ==
    ( /\ config = DEFAULT_CONFIG
      /\ pc = "wait" /\ ~stop_event /\ main_pc = "idle"
      /\ queue = << >> /\ ~clock_due
      /\ fail_run = 0 /\ last_fetch_ok /\ consecutive_failures = 0
      /\ unchanged_polls = 0
      /\ HasMessages(latest_data) )
    => status = "live"

(***************************************************************************)
(* Properties of the window's handlers (Spec)                              *)
(***************************************************************************)
\* the event loop hands the signal at the head of the queue, of this kind, to
\* its slot
Handled(kind) ==
    queue # << >> /\ Head(queue).kind = kind /\ queue' = Tail(queue)

\* C21: consecutive_failures is zero at start-up, goes up by one with every
\* fetch_failed signal handled, back to zero with every data_received signal
\* handled, and nothing else changes it: it counts the fetch_failed signals
\* handled since the last data_received. So a positive count goes with
\* last_fetch_ok false, and while last_fetch_ok is true the count is below
\* stale_failure_polls (which is at least 1).
C21_FailuresCounted ==
    /\ consecutive_failures = 0 /\ ~last_fetch_ok
    /\ config.stale_failure_polls >= 1
    /\ [][ /\ Handled("fetch_failed")
                => consecutive_failures' = consecutive_failures + 1
           /\ Handled("data_received") => consecutive_failures' = 0
           /\ ~(Handled("fetch_failed") \/ Handled("data_received"))
                => consecutive_failures' = consecutive_failures
           /\ consecutive_failures' > 0 => ~last_fetch_ok'
           /\ last_fetch_ok'
                => consecutive_failures' < config.stale_failure_polls ]_vars

\* C21 witness: the same snapshot was handled twice, then two fetch_failed
\* signals: the count has gone from zero up to the threshold
C21_Witness ==
    /\ config.stale_failure_polls = 2
    /\ latest_data # None
    /\ consecutive_failures = 2
    /\ ~last_fetch_ok
    /\ status = "stale"
    /\ unchanged_polls = 1

\* C22: handling a fetch_failed signal sets last_fetch_ok to false and adds
\* one to consecutive_failures, and leaves the snapshot, the time of the last
\* successful fetch, unchanged_polls and the stored fingerprint as they were.
\* So a snapshot that comes after failures and has the stored fingerprint
\* carries the unchanged-poll run on.
C22_FailureFrame ==
    [][ /\ Handled("fetch_failed")
             => /\ last_fetch_ok' = FALSE
                /\ consecutive_failures' = consecutive_failures + 1
                /\ latest_data' = latest_data
                /\ fetch_age' = fetch_age
                /\ unchanged_polls' = unchanged_polls
                /\ last_signature' = last_signature
        /\ ( /\ Handled("data_received")
             /\ consecutive_failures > 0
             /\ last_signature = Some(C18_Fingerprint(Head(queue).data)) )
             => unchanged_polls' = unchanged_polls + 1 ]_vars

\* C22 witness: the same snapshot came twice, then a failure was handled, and
\* the same snapshot is posted again: the run of one unchanged poll is still
\* there for it to carry on
C22_Witness ==
    /\ consecutive_failures = 1
    /\ ~last_fetch_ok
    /\ unchanged_polls = 1
    /\ HasMessages(latest_data)
    /\ queue # << >>
    /\ Head(queue).kind = "data_received"
    /\ last_signature = Some(C18_Fingerprint(Head(queue).data))

\* the event loop runs update_clock for a timeout of clock_timer
ClockSlot == clock_due /\ ~clock_due'

\* C23 (the claim as stated): the status is stale before any event; it goes
\* from stale to live only when a data_received signal is handled; a clock
\* tick or a fetch_failed signal changes it from live to stale or not at all
C23_StatusTransitions ==
    /\ status = "stale"
    /\ [][ /\ (status = "stale" /\ status' = "live")
                => Handled("data_received")
           /\ ((ClockSlot \/ Handled("fetch_failed")) /\ status' # status)
                => (status = "live" /\ status' = "stale") ]_vars

\* C23 (amended): before any event the window shows neither status but
\* "Checking feed...", while its fields are those of a stale feed. The status
\* becomes live only when a data_received signal is handled; a fetch_failed
\* signal leaves it stale; a clock tick leaves it stale, or live if it was
\* live; nothing else changes it, and "Checking feed..." never comes back.
C23_StatusTransitionsAmended ==
    /\ status = "checking"
    /\ IsStale(config, latest_data, last_fetch_ok, fetch_age,
               unchanged_polls, consecutive_failures)
    /\ [][ /\ (status # "live" /\ status' = "live")
                => Handled("data_received")
           /\ Handled("fetch_failed") => status' = "stale"
           /\ ClockSlot
                => (status' = "stale" \/ (status = "live" /\ status' = "live"))
           /\ status' # status
                => ( \/ ClockSlot
                     \/ Handled("fetch_failed")
                     \/ Handled("data_received") )
           /\ status' = "checking" => status = "checking" ]_vars

\* C23 witness: a snapshot with messages was shown live, the clock slot found
\* it older than the TTL and showed stale, with no failure and no unchanged
\* run to blame; the next snapshot, a different one with messages, is posted
C23_Witness ==
    /\ status = "stale"
    /\ last_fetch_ok
    /\ consecutive_failures = 0
    /\ unchanged_polls = 0
    /\ HasMessages(latest_data)
    /\ fetch_age > EffectiveTtl(config, latest_data)
    /\ queue # << >>
    /\ Head(queue).kind = "data_received"
    /\ Head(queue).data.messages # << >>
    /\ last_signature # Some(C18_Fingerprint(Head(queue).data))

(***************************************************************************)
(* Termination of the thread (LiveSpec)                                    *)
(***************************************************************************)
\* C24 (the claim as stated): once stop() has been called, run() comes to its
\* end with the session closed, unless a fetch stays in flight for ever; the
\* session is closed once, on the way out and never before; and at most one
\* signal is emitted after the call of stop().
C24_StopTerminates ==
    /\ [][ /\ session_closes' <= 1
           /\ (pc' = "done") = (session_closes' = 1)
           /\ events_after_stop' <= 1
           /\ ~stop_event' => events_after_stop' = 0 ]_vars
    /\ stop_event ~> ( \/ pc = "done" /\ session_closes = 1
                       \/ [](pc = "fetching") )

====
